---- MODULE Spec2Model ----
(***************************************************************************)
(* Monte Carlo samplers of the Computational-Statistical-Mechanics         *)
(* notebooks: the inhomogeneous pebble game (create_system,                *)
(* get_neighborhood_table, the lattice metropolis_pebble) and the basic    *)
(* sampling notebook (the generic metropolis_pebble, reject_finite,        *)
(* tower_sample).                                                          *)
(*                                                                         *)
(* Real numbers are modelled as exact rationals [num, den] with den > 0.   *)
(* Weights are positive integers; a uniform variate is a rational on a     *)
(* grid of step 1/DrawDen over the interval the code draws it from.        *)
(***************************************************************************)
EXTENDS Integers, Sequences, FiniteSets, TLC

\* ------------------------------------------------------------------ bounds
\* largest iteration count a caller passes to a sampler of the basic
\* sampling notebook
MaxIter == 2
\* largest iteration count a caller passes to the lattice walker
MaxWalk == 4
\* weights are drawn from 1..MaxW
MaxW == 2
\* a uniform variate is a multiple of 1/DrawDen
DrawDen == 4
\* longest activity list a caller passes
MaxAct == 3

\* ------------------------------------------------------- program constants
\* "max dimension of the system is 5": 26 letters hold at most a 5x5 grid
MaxN == 5

Letters ==
  << "A", "B", "C", "D", "E", "F", "G", "H", "I", "J", "K", "L", "M",
     "N", "O", "P", "Q", "R", "S", "T", "U", "V", "W", "X", "Y", "Z" >>

AllActivities ==
  << "trip", "novel", "cricket", "movie", "video games", "studying", "football" >>

\* --------------------------------------------------------------- rationals
Rat(a, b) == [num |-> a, den |-> b]

RatLeq(x, y) == x.num * y.den <= y.num * x.den

RatLess(x, y) == x.num * y.den < y.num * x.den

One == Rat(1, 1)

Zero == Rat(0, 1)

\* Python's true division of two positive weights
Div(a, b) == Rat(a, b)

\* Python's min(1, x): the first argument unless the second is smaller
Min1(x) == IF RatLess(x, One) THEN x ELSE One

\* random.uniform(0, 1) == 0 + (1 - 0) * random(), random() in [0, 1)
Uniform01 == { Rat(u, DrawDen) : u \in 0..(DrawDen - 1) }

\* random.uniform(0, b) == 0 + (b - 0) * random(): [0, b], the end point b
\* being produced or not depending on floating-point rounding
Uniform0(b) == { Rat(u, DrawDen) : u \in 0..(b * DrawDen) }

Range(f) == { f[x] : x \in DOMAIN f }

RECURSIVE SumOver(_, _)
SumOver(f, S) ==
  IF S = {} THEN 0
  ELSE LET x == CHOOSE y \in S : TRUE IN f[x] + SumOver(f, S \ {x})

\* sum of the values of a dict / of a list
Total(f) == SumOver(f, DOMAIN f)

\* ---------------------------------------------------------------- lattice
\* create_system(n): the first n*n capital letters, reshaped row-major;
\* rows and columns are 0-based as in numpy
create_system(m) ==
  [ r \in 0..(m - 1) |-> [ c \in 0..(m - 1) |-> Letters[r * m + c + 1] ] ]

\* the four appends of one (i, j) pass of get_neighborhood_table
UpOfWrap(sys, m, r, c) == sys[(r - 1) % m][c]

RightOfWrap(sys, m, r, c) == sys[r][(c + 1) % m]

DownOfWrap(sys, m, r, c) == sys[(r + 1) % m][c]

UpOf(sys, m, r, c) == IF r > 0 THEN sys[r - 1][c] ELSE sys[r][c]

RightOf(sys, m, r, c) == IF c < m - 1 THEN sys[r][c + 1] ELSE sys[r][c]

DownOf(sys, m, r, c) == IF r < m - 1 THEN sys[r + 1][c] ELSE sys[r][c]

LeftOf(sys, m, r, c) == IF c > 0 THEN sys[r][c - 1] ELSE sys[r][c]

Neighbors(sys, m, r, c) ==
  << UpOf(sys, m, r, c), RightOf(sys, m, r, c),
     DownOf(sys, m, r, c), LeftOf(sys, m, r, c) >>

\* dict assignment d[key] = val
DictSet(d, key, val) ==
  [ x \in (DOMAIN d) \cup {key} |-> IF x = key THEN val ELSE d[x] ]

\* the double loop of get_neighborhood_table, cell p = i * n + j, in order
RECURSIVE TableLoop(_, _, _, _)
TableLoop(sys, m, p, table) ==
  IF p >= m * m THEN table
  ELSE LET r == p \div m
           c == p % m
       IN TableLoop(sys, m, p + 1,
                    DictSet(table, sys[r][c], Neighbors(sys, m, r, c)))

EmptyDict == [ x \in {} |-> 0 ]

get_neighborhood_table(sys) ==
  LET m == Cardinality(DOMAIN sys) IN TableLoop(sys, m, 0, EmptyDict)

\* labels of an m x m grid
GridLabels(m) == { Letters[p] : p \in 1..(m * m) }

\* the notebook's sta_prob, a table for the 4x4 grid
NotebookStaProb ==
  [ l \in GridLabels(4) |-> IF l \in { "F", "G", "J", "K" } THEN 1 ELSE 2 ]

\* checkerboard weight tables: a on the cells with i + j even, b on the others
StaProbChecker(m, a, b) ==
  [ l \in GridLabels(m) |->
      LET p == CHOOSE q \in 1..(m * m) : Letters[q] = l
      IN IF (((p - 1) \div m) + ((p - 1) % m)) % 2 = 0 THEN a ELSE b ]

\* the weight tables passed for an m x m grid
WeightTables(m) ==
  { StaProbChecker(m, a, b) : a \in 1..MaxW, b \in 1..MaxW }
    \cup (IF m = 4 THEN { NotebookStaProb } ELSE {})

\* scores = {'A': 0, ..., 'P': 0}
InitialScores == [ l \in { Letters[p] : p \in 1..16 } |-> 0 ]


\* ------------------------------------------------------------------- state
VARIABLES
  fn,                 \* the function being run
  pc,                 \* its position: start, table, call, loop, done, KeyError
  seed,               \* the label the caller wants the walk to start from
  n,                  \* grid size given to create_system
  system,             \* the grid
  neighborhood_table, \* label -> <<up, right, down, left>>
  sta_prob,           \* lattice weight table, label -> weight
  activities,         \* list of labels (generic, reject, tower)
  probabilities,      \* list of weights, parallel to activities
  num_iter,           \* iteration count passed by the caller
  it,                 \* items the outer range(num_iter) has produced so far
  i,                  \* the loop variable i
  scores,             \* label -> number of hits
  current_pos, current_pos_prob,
  new_direct, new_idx, new_pos, new_pos_prob,
  gamma,              \* acceptance probability / threshold / tower draw
  variate,            \* the value of random.uniform(0, 1) in the if
  branch,             \* arm of the if taken by the last iteration
  k, max_prob, accept_count,
  cum_prob,
  upsilon,            \* the value of random.uniform(0, 1) in cont_tower_sample
  results             \* the samples cont_tower_sample has appended

inputs == << fn, seed, n, sta_prob, activities, probabilities, num_iter >>

gridVars == << system, neighborhood_table >>

walkVars ==
  << current_pos, current_pos_prob, new_direct, new_idx, new_pos,
     new_pos_prob, variate >>

rejectVars == << k, max_prob, accept_count >>

loopVars == << it, i, scores, gamma, branch >>

contVars == << upsilon, results >>

vars ==
  << inputs, pc, gridVars, walkVars, rejectVars, loopVars, cum_prob, contVars >>

\* 0-based list indexing
At(list, idx) == list[idx + 1]

\* for i in activities: scores[i] = 0
ZeroScores(acts) == [ a \in Range(acts) |-> 0 ]

\* scores[key] += 1
Hit(sc, key) == [ sc EXCEPT ![key] = @ + 1 ]

\* the test of the if: random.uniform(0, 1) <= gamma
AcceptStrict(v, g) == RatLess(v, g)

Accept(v, g) == RatLeq(v, g)

\* scores[current_pos] += 1 after the if has or has not moved current_pos
TallyInsideIf(sc, cur, new, acc) == IF acc THEN Hit(sc, new) ELSE sc

TallyBoth(sc, cur, new, acc) == IF acc THEN Hit(Hit(sc, cur), new) ELSE Hit(sc, cur)

Tally(sc, cur, new, acc) == Hit(sc, IF acc THEN new ELSE cur)

\* gamma = min(1, new_pos_prob / current_pos_prob)
GammaNoMin(new, cur) == Div(new, cur)

Gamma(new, cur) == Min1(Div(new, cur))

\* current_pos_prob = new_pos_prob, inside the if
CacheStale(cur_w, new_w, acc) == cur_w

CacheWeight(cur_w, new_w, acc) == IF acc THEN new_w ELSE cur_w

\* current_pos_prob = sta_prob[current_pos] before the loop
InitialWeightZero(table, label) == 0

InitialWeight(table, label) == table[label]

\* ------------------------------------------------------------------ inputs
ActivityLists == { SubSeq(AllActivities, 1, len) : len \in 1..MaxAct }

WeightLists(len) == [ 1..len -> 1..MaxW ]

\* the starts a caller may want: the first and the last label of the table
SeedChoices(labels) == { labels[1], labels[Len(labels)] }

GridLabelList(m) == SubSeq(Letters, 1, m * m)

InitCommon ==
  /\ pc = "start"
  /\ system = << >>
  /\ neighborhood_table = EmptyDict
  /\ it = 0
  /\ i = -1
  /\ scores = EmptyDict
  /\ current_pos = ""
  /\ current_pos_prob = 0
  /\ new_direct = -1
  /\ new_idx = -1
  /\ new_pos = ""
  /\ new_pos_prob = 0
  /\ gamma = Zero
  /\ variate = Zero
  /\ branch = "none"
  /\ k = -1
  /\ max_prob = 0
  /\ accept_count = 0
  /\ cum_prob = << >>
  /\ upsilon = Zero
  /\ results = << >>

\* no start asked for
NoSeed == ""

InitLatticeSeeded(seeded) ==
  /\ fn = "lattice"
  /\ n \in 1..MaxN
  /\ num_iter \in 0..MaxWalk
  /\ sta_prob \in WeightTables(n)
  /\ seed \in IF seeded THEN SeedChoices(GridLabelList(n)) ELSE {NoSeed}
  /\ activities = << >>
  /\ probabilities = << >>
  /\ InitCommon

InitLattice == InitLatticeSeeded(FALSE)

InitListSeeded(f, seeded) ==
  /\ fn = f
  /\ n = 0
  /\ num_iter \in 0..MaxIter
  /\ sta_prob = EmptyDict
  /\ activities \in ActivityLists
  /\ probabilities \in WeightLists(Len(activities))
  /\ seed \in IF seeded THEN SeedChoices(activities) ELSE {NoSeed}
  /\ InitCommon

InitList(f) == InitListSeeded(f, FALSE)

\* --------------------------------------------------- pebble game notebook
\* system = create_system(n)
CreateSystem ==
  /\ fn = "lattice" /\ pc = "start"
  /\ system' = create_system(n)
  /\ pc' = "table"
  /\ UNCHANGED << inputs, contVars, neighborhood_table, walkVars, rejectVars, loopVars, cum_prob >>

\* neighborhood_table = get_neighborhood_table(system)
BuildTable ==
  /\ fn = "lattice" /\ pc = "table"
  /\ neighborhood_table' = get_neighborhood_table(system)
  /\ pc' = "call"
  /\ UNCHANGED << inputs, contVars, system, walkVars, rejectVars, loopVars, cum_prob >>

\* current_pos = 'A'
StartAtSeed == seed

LatticeStart == "A"

\* metropolis_pebble(num_iter, neighborhood_table, sta_prob) up to its loop
LatticeCall ==
  /\ fn = "lattice" /\ pc = "call"
  /\ scores' = InitialScores
  /\ current_pos' = LatticeStart
  /\ current_pos_prob' = InitialWeight(sta_prob, LatticeStart)
  /\ pc' = "loop"
  /\ UNCHANGED << inputs, contVars, gridVars, rejectVars, cum_prob, it, i, gamma, branch,
                  new_direct, new_idx, new_pos, new_pos_prob, variate >>

\* one pass of the loop body, with direction d and variate v; the pass ends
\* in KeyError when scores has no entry for the position it tallies
LatticeBody(d, v, ok) ==
  LET np  == neighborhood_table[current_pos][d + 1]
      npp == sta_prob[np]
      g   == Gamma(npp, current_pos_prob)
      acc == Accept(v, g)
      cp  == IF acc THEN np ELSE current_pos
  IN /\ ok = (cp \in DOMAIN scores)
     /\ i' = it
     /\ it' = it + 1
     /\ new_direct' = d
     /\ new_pos' = np
     /\ new_pos_prob' = npp
     /\ gamma' = g
     /\ variate' = v
     /\ branch' = IF acc THEN "accept" ELSE "reject"
     /\ current_pos' = cp
     /\ current_pos_prob' = CacheWeight(current_pos_prob, npp, acc)
     /\ scores' = IF ok THEN Tally(scores, current_pos, np, acc) ELSE scores
     /\ pc' = IF ok THEN "loop" ELSE "KeyError"
     /\ UNCHANGED << inputs, contVars, gridVars, rejectVars, cum_prob, new_idx >>

LatticeIter ==
  /\ fn = "lattice" /\ pc = "loop" /\ it < num_iter
  /\ \E d \in 0..3, v \in Uniform01 : LatticeBody(d, v, TRUE)

LatticeIterKeyError ==
  /\ fn = "lattice" /\ pc = "loop" /\ it < num_iter
  /\ \E d \in 0..3, v \in Uniform01 : LatticeBody(d, v, FALSE)

\* return scores
Return(f) ==
  /\ fn = f /\ pc = "loop" /\ it = num_iter
  /\ pc' = "done"
  /\ UNCHANGED << inputs, contVars, gridVars, walkVars, rejectVars, loopVars, cum_prob >>

LatticeReturn == Return("lattice")


\* ------------------------------------------------ basic sampling notebook
\* current_pos = activities[0]; current_pos_prob = probabilities[0]
GenericStart == 0

\* the generic metropolis_pebble(num_iter, activities, probabilities) up to
\* its loop; "for i in activities" leaves i at the last label
GenericCall ==
  /\ fn = "generic" /\ pc = "start"
  /\ scores' = ZeroScores(activities)
  /\ i' = At(activities, Len(activities) - 1)
  /\ current_pos' = At(activities, GenericStart)
  /\ current_pos_prob' = At(probabilities, GenericStart)
  /\ pc' = "loop"
  /\ UNCHANGED << inputs, contVars, gridVars, rejectVars, cum_prob, it, gamma, branch,
                  new_direct, new_idx, new_pos, new_pos_prob, variate >>

GenericIter ==
  /\ fn = "generic" /\ pc = "loop" /\ it < num_iter
  /\ \E idx \in 0..(Len(activities) - 1), v \in Uniform01 :
       LET np  == At(activities, idx)
           npp == At(probabilities, idx)
           g   == Gamma(npp, current_pos_prob)
           acc == Accept(v, g)
           cp  == IF acc THEN np ELSE current_pos
       IN /\ i' = it
          /\ it' = it + 1
          /\ new_idx' = idx
          /\ new_pos' = np
          /\ new_pos_prob' = npp
          /\ gamma' = g
          /\ variate' = v
          /\ branch' = IF acc THEN "accept" ELSE "reject"
          /\ current_pos' = cp
          /\ current_pos_prob' = CacheWeight(current_pos_prob, npp, acc)
          /\ scores' = Tally(scores, current_pos, np, acc)
          /\ UNCHANGED << inputs, contVars, pc, gridVars, rejectVars, cum_prob, new_direct >>

GenericReturn == Return("generic")

\* max(probabilities)
Max(list) == CHOOSE x \in Range(list) : \A y \in Range(list) : y <= x

\* reject_finite(num_iter, activities, probabilities) up to its loop
RejectCall ==
  /\ fn = "reject" /\ pc = "start"
  /\ scores' = ZeroScores(activities)
  /\ i' = At(activities, Len(activities) - 1)
  /\ max_prob' = Max(probabilities)
  /\ accept_count' = 0
  /\ pc' = "loop"
  /\ UNCHANGED << inputs, contVars, gridVars, walkVars, cum_prob, it, gamma, branch, k >>

\* the test of the if: gamma <= probabilities[k]
RejectAcceptStrict(g, w) == RatLess(g, Rat(w, 1))

RejectAccept(g, w) == RatLeq(g, Rat(w, 1))

\* scores[activities[k]] += 1, inside the if
RejectTallyAlways(sc, key, acc) == Hit(sc, key)

RejectTally(sc, key, acc) == IF acc THEN Hit(sc, key) ELSE sc

\* accept_count += 1, inside the if
CountTwice(cnt, acc) == IF acc THEN cnt + 2 ELSE cnt + 1

Count(cnt, acc) == IF acc THEN cnt + 1 ELSE cnt

RejectIter ==
  /\ fn = "reject" /\ pc = "loop" /\ it < num_iter
  /\ \E kk \in 0..(Len(activities) - 1), g \in Uniform0(max_prob) :
       LET acc == RejectAccept(g, At(probabilities, kk))
       IN /\ i' = it
          /\ it' = it + 1
          /\ k' = kk
          /\ gamma' = g
          /\ branch' = IF acc THEN "accept" ELSE "reject"
          /\ scores' = RejectTally(scores, At(activities, kk), acc)
          /\ accept_count' = Count(accept_count, acc)
          /\ UNCHANGED << inputs, contVars, pc, gridVars, walkVars, cum_prob, max_prob >>

\* return scores, accept_count
RejectReturn == Return("reject")

\* cum_prob = [0]; for i in range(len(probabilities)):
\*     cum_prob.append(cum_prob[i] + probabilities[i])
RECURSIVE CumLoopFlat(_, _, _)
CumLoopFlat(probs, j, cum) ==
  IF j >= Len(probs) THEN cum
  ELSE CumLoopFlat(probs, j + 1, Append(cum, At(probs, j)))

RECURSIVE CumLoop(_, _, _)
CumLoop(probs, j, cum) ==
  IF j >= Len(probs) THEN cum
  ELSE CumLoop(probs, j + 1, Append(cum, At(cum, j) + At(probs, j)))

CumProb(probs) == CumLoop(probs, 0, << 0 >>)

\* cum_prob[-1]
Last(list) == list[Len(list)]

\* the test of the inner if: gamma <= cum_prob[i]
InBucketStrict(g, c) == RatLess(g, Rat(c, 1))

InBucket(g, c) == RatLeq(g, Rat(c, 1))

\* for i in range(1, len(cum_prob)): if gamma <= cum_prob[i]: ...; break
\* the value of i at the break, or 0 when the loop runs out without a break
ScanNoBreak(cum, g, j) == IF InBucket(g, Last(cum)) THEN Len(cum) - 1 ELSE 0

RECURSIVE Scan(_, _, _)
Scan(cum, g, j) ==
  IF j >= Len(cum) THEN 0
  ELSE IF InBucket(g, At(cum, j)) THEN j
  ELSE Scan(cum, g, j + 1)

\* scores[activities[i-1]] += 1
Bucket(acts, j) == At(acts, j - 1)

\* tower_sample(num_iter, activities, probabilities) up to its sampling loop
TowerCall ==
  /\ fn = "tower" /\ pc = "start"
  /\ scores' = ZeroScores(activities)
  /\ cum_prob' = CumProb(probabilities)
  /\ i' = Len(probabilities) - 1
  /\ pc' = "loop"
  /\ UNCHANGED << inputs, contVars, gridVars, walkVars, rejectVars, it, gamma, branch >>

\* whether the outer "for i in range(num_iter)" has another item: the range
\* iterator keeps its own position, whatever the body assigns to i
HasNext(pos, var, count) == pos < count

\* one pass of the sampling loop: the outer for binds i, the inner for
\* rebinds it while scanning
TowerIter ==
  /\ fn = "tower" /\ pc = "loop" /\ HasNext(it, i, num_iter)
  /\ \E g \in Uniform0(Last(cum_prob)) :
       LET j == Scan(cum_prob, g, 1)
       IN /\ it' = it + 1
          /\ gamma' = g
          /\ i' = IF j # 0 THEN j
                  ELSE IF Len(cum_prob) > 1 THEN Len(cum_prob) - 1 ELSE it
          /\ branch' = IF j # 0 THEN "hit" ELSE "miss"
          /\ scores' = IF j # 0 THEN Hit(scores, Bucket(activities, j)) ELSE scores
          /\ UNCHANGED << inputs, contVars, pc, gridVars, walkVars, rejectVars, cum_prob >>

TowerReturn ==
  /\ fn = "tower" /\ pc = "loop" /\ ~HasNext(it, i, num_iter)
  /\ pc' = "done"
  /\ UNCHANGED << inputs, contVars, gridVars, walkVars, rejectVars, loopVars, cum_prob >>

\* np.arccos(x): a real number the model keeps as the term arccos(x)
Arccos(x) == [ op |-> "arccos", arg |-> x ]

\* 1 - 2 * upsilon
OneMinusTwice(u) == Rat(u.den - 2 * u.num, u.den)

\* cont_tower_sample(num_iter) up to its loop
ContCall ==
  /\ fn = "cont" /\ pc = "start"
  /\ results' = << >>
  /\ pc' = "loop"
  /\ UNCHANGED << inputs, upsilon, gridVars, walkVars, rejectVars, loopVars, cum_prob >>

\* one pass of the loop of cont_tower_sample
ContIter ==
  /\ fn = "cont" /\ pc = "loop" /\ it < num_iter
  /\ \E u \in Uniform01 :
       /\ i' = it
       /\ it' = it + 1
       /\ upsilon' = u
       /\ results' = Append(results, Arccos(OneMinusTwice(u)))
       /\ UNCHANGED << inputs, pc, gridVars, walkVars, rejectVars, cum_prob,
                       scores, gamma, branch >>

\* return np.array(results)
ContReturn == Return("cont")

\* --------------------------------------------------------- specifications
NextLattice ==
  \/ CreateSystem
  \/ BuildTable
  \/ LatticeCall
  \/ LatticeIter
  \/ LatticeIterKeyError
  \/ LatticeReturn

NextGeneric == GenericCall \/ GenericIter \/ GenericReturn

NextReject == RejectCall \/ RejectIter \/ RejectReturn

NextTower == TowerCall \/ TowerIter \/ TowerReturn

NextCont == ContCall \/ ContIter \/ ContReturn

\* the pebble game notebook
SpecLattice == InitLattice /\ [][NextLattice]_vars

\* both Metropolis walkers
InitMetropolis == InitLattice \/ InitList("generic")

NextMetropolis == NextLattice \/ NextGeneric

SpecMetropolis == InitMetropolis /\ [][NextMetropolis]_vars

\* both Metropolis walkers, called by a caller who wants the walk to start
\* from a label of its choice
InitSeed == InitLatticeSeeded(TRUE) \/ InitListSeeded("generic", TRUE)

SpecSeed == InitSeed /\ [][NextMetropolis]_vars

\* reject_finite
InitReject == InitList("reject")

SpecReject == InitReject /\ [][NextReject]_vars

\* tower_sample
InitTower == InitList("tower")

SpecTower == InitTower /\ [][NextTower]_vars

\* cont_tower_sample
InitCont ==
  /\ fn = "cont"
  /\ n = 0
  /\ num_iter \in 0..MaxIter
  /\ sta_prob = EmptyDict
  /\ activities = << >>
  /\ probabilities = << >>
  /\ seed = NoSeed
  /\ InitCommon

SpecCont == InitCont /\ [][NextCont]_vars

\* every sampler of the two notebooks
Init ==
  \/ InitLattice
  \/ InitList("generic")
  \/ InitList("reject")
  \/ InitList("tower")
  \/ InitCont

Next == NextLattice \/ NextGeneric \/ NextReject \/ NextTower \/ NextCont

Spec == Init /\ [][Next]_vars


\* ------------------------------------------------------------- properties
\* the table printed by the notebook for the 4x4 grid
PrintedTable ==
  [ l \in { Letters[p] : p \in 1..16 } |->
      CASE l = "A" -> << "A", "B", "E", "A" >>
        [] l = "B" -> << "B", "C", "F", "A" >>
        [] l = "C" -> << "C", "D", "G", "B" >>
        [] l = "D" -> << "D", "D", "H", "C" >>
        [] l = "E" -> << "A", "F", "I", "E" >>
        [] l = "F" -> << "B", "G", "J", "E" >>
        [] l = "G" -> << "C", "H", "K", "F" >>
        [] l = "H" -> << "D", "H", "L", "G" >>
        [] l = "I" -> << "E", "J", "M", "I" >>
        [] l = "J" -> << "F", "K", "N", "I" >>
        [] l = "K" -> << "G", "L", "O", "J" >>
        [] l = "L" -> << "H", "L", "P", "K" >>
        [] l = "M" -> << "I", "N", "M", "M" >>
        [] l = "N" -> << "J", "O", "N", "M" >>
        [] l = "O" -> << "K", "P", "O", "N" >>
        [] l = "P" -> << "L", "P", "P", "O" >> ]

\* the table has been built
TableBuilt == fn = "lattice" /\ pc \notin { "start", "table" }

\* (r, c) is a cell of the grid
InGrid(r, c) == r \in 0..(n - 1) /\ c \in 0..(n - 1)

\* label of the cell at offset (dr, dc) of cell (r, c) when that cell lies
\* in the grid, the label of (r, c) itself when it does not
Adjacent(r, c, dr, dc) ==
  IF InGrid(r + dr, c + dc) THEN system[r + dr][c + dc] ELSE system[r][c]

\* C1: once get_neighborhood_table has run on the n x n grid of distinct
\* labels, the table has exactly the grid's labels as keys and maps the label
\* of every cell (r, c) to <<up, right, down, left>>: the label of the
\* grid-adjacent cell in that direction when it lies in the grid, the cell's
\* own label when it does not; on the 4x4 grid it is the printed table.
C1_NeighborTable ==
  TableBuilt =>
    /\ \A r1, c1, r2, c2 \in 0..(n - 1) :
         system[r1][c1] = system[r2][c2] => r1 = r2 /\ c1 = c2
    /\ DOMAIN neighborhood_table = { system[r][c] : r \in 0..(n - 1), c \in 0..(n - 1) }
    /\ \A r \in 0..(n - 1), c \in 0..(n - 1) :
         neighborhood_table[system[r][c]] =
           << Adjacent(r, c, -1, 0), Adjacent(r, c, 0, 1),
              Adjacent(r, c, 1, 0), Adjacent(r, c, 0, -1) >>
    /\ n = 4 => neighborhood_table = PrintedTable

\* the table of the 4x4 grid is built: F has four distinct neighbours, the
\* corner A loops on itself upwards and leftwards
C1_Witness ==
  /\ TableBuilt
  /\ n = 4
  /\ neighborhood_table["F"] = << "B", "G", "J", "E" >>
  /\ neighborhood_table["A"] = << "A", "B", "E", "A" >>

\* a Metropolis walker is running
Walking == fn \in { "lattice", "generic" }

\* the step is one pass of a walker's loop
WalkPass == Walking /\ pc = "loop" /\ it' = it + 1

\* weight of the candidate of the last pass, read from the weight table
CandidateWeight ==
  IF fn = "lattice" THEN sta_prob[new_pos] ELSE At(probabilities, new_idx)

\* C2: in every pass of a Metropolis walker (lattice or generic) gamma is
\* min(1, w_new / w_current), the candidate is accepted if and only if the
\* variate is <= gamma, a candidate at least as heavy as the current position
\* is accepted whatever the variate, an accepted candidate becomes the
\* current position with its weight cached, and a rejection leaves the
\* position and the cached weight as they were.
C2_AcceptIffVariateLeqGamma ==
  [][ WalkPass =>
        /\ new_pos_prob' = CandidateWeight'
        /\ IF new_pos_prob' >= current_pos_prob
             THEN gamma'.num = gamma'.den
             ELSE gamma'.num * current_pos_prob = new_pos_prob' * gamma'.den
        /\ branch' \in { "accept", "reject" }
        /\ branch' = "accept" <=>
             variate'.num * gamma'.den <= gamma'.num * variate'.den
        /\ new_pos_prob' >= current_pos_prob => branch' = "accept"
        /\ branch' = "accept" =>
             current_pos' = new_pos' /\ current_pos_prob' = new_pos_prob'
        /\ branch' = "reject" =>
             current_pos' = current_pos /\ current_pos_prob' = current_pos_prob
    ]_vars

\* a lighter candidate was accepted on a tie, the variate being exactly gamma
C2_Witness ==
  /\ Walking
  /\ it > 0
  /\ branch = "accept"
  /\ gamma.num < gamma.den
  /\ variate.num * gamma.den = gamma.num * variate.den

Sampling == fn = "tower" /\ pc \in { "loop", "done" }

\* C4: tower_sample is rejection-free: with strictly positive weights every
\* draw of [0, C[last]] finds a bucket, so after k draws the scores sum to k,
\* and the function returns after exactly num_iter draws with scores that sum
\* to num_iter, whatever the inner scan left in the loop variable i.
C4_RejectionFree ==
  Sampling =>
    /\ \A j \in DOMAIN probabilities : probabilities[j] > 0
    /\ branch # "miss"
    /\ it > 0 => branch = "hit"
    /\ Total(scores) = it
    /\ it <= num_iter
    /\ pc = "done" => it = num_iter /\ Total(scores) = num_iter

\* tower_sample returned after its last draw, the top of the tower, which
\* the scan put in the last bucket leaving i above the outer counter
C4_Witness ==
  /\ Sampling
  /\ pc = "done"
  /\ num_iter = 2
  /\ Len(probabilities) = 3
  /\ gamma.num = Last(cum_prob) * gamma.den
  /\ i = 3
  /\ scores[At(activities, 2)] >= 1
  /\ Total(scores) = 2

\* the step is one pass of tower_sample's sampling loop
TowerPass == fn = "tower" /\ pc = "loop" /\ it' = it + 1

\* the draw lies in (C[j-1], C[j]], or in [0, C[1]] for j = 1
FirstAtOrAbove(draw, j) ==
  /\ draw.num <= At(cum_prob, j) * draw.den
  /\ \A j2 \in 1..(j - 1) : draw.num > At(cum_prob, j2) * draw.den

\* C5: in tower_sample C[0] = 0 and C[i] = C[i-1] + w[i-1], and each draw adds
\* 1 to the score of activity i-1, i being the first index of 1..len(w) with
\* draw <= C[i], and to no other score: a draw equal to the boundary C[i]
\* goes to the lower bucket i-1 and a draw of 0 goes to activity 0.
C5_FirstBucket ==
  /\ [](Sampling =>
          /\ Len(cum_prob) = Len(probabilities) + 1
          /\ At(cum_prob, 0) = 0
          /\ \A j \in 1..Len(probabilities) :
               At(cum_prob, j) = At(cum_prob, j - 1) + At(probabilities, j - 1))
  /\ [][ TowerPass =>
           /\ \E j \in 1..Len(probabilities) :
                /\ FirstAtOrAbove(gamma', j)
                /\ scores' = [ scores EXCEPT ![At(activities, j - 1)] = @ + 1 ]
           /\ \A j \in 1..Len(probabilities) :
                gamma'.num = At(cum_prob, j) * gamma'.den =>
                  scores'[At(activities, j - 1)] = scores[At(activities, j - 1)] + 1
           /\ gamma'.num = 0 =>
                scores'[At(activities, 0)] = scores[At(activities, 0)] + 1
       ]_vars

\* a draw exactly on the boundary C[2] of a three-bucket tower was counted
\* for activity 1, after a draw of 0 or more was counted elsewhere
C5_Witness ==
  /\ Sampling
  /\ Len(probabilities) = 3
  /\ it = 2
  /\ gamma.num = At(cum_prob, 2) * gamma.den
  /\ scores[At(activities, 1)] = 1
  /\ scores[At(activities, 0)] = 1

\* reject_finite is in or past its loop
Rejecting == fn = "reject" /\ pc \in { "loop", "done" }

\* the step is one pass of reject_finite's loop
RejectPass == fn = "reject" /\ pc = "loop" /\ it' = it + 1

\* C6: in reject_finite the accept count never exceeds the number of passes
\* made so far, a step adds 0 or 1 to it and never lowers it, and at return
\* it is at most num_iter.
C6_AcceptCountBounded ==
  /\ [](Rejecting => accept_count >= 0 /\ accept_count <= it /\ it <= num_iter)
  /\ [](Rejecting /\ pc = "done" => accept_count <= num_iter)
  /\ [][ fn = "reject" /\ pc = "loop" =>
           accept_count' \in { accept_count, accept_count + 1 } ]_vars

\* reject_finite returned having rejected one draw and accepted another
C6_Witness ==
  /\ Rejecting
  /\ pc = "done"
  /\ num_iter = 2
  /\ accept_count = 1

\* C7: in reject_finite accept_count always equals the sum of the scores; an
\* accepted draw adds 1 to the score of the chosen activity, to no other
\* score, and 1 to accept_count; a rejected draw leaves every score and
\* accept_count as they were.
C7_AcceptCountIsScoreSum ==
  /\ [](Rejecting => accept_count = Total(scores))
  /\ [][ RejectPass =>
           /\ branch' \in { "accept", "reject" }
           /\ branch' = "accept" =>
                /\ scores' = [ scores EXCEPT ![At(activities, k')] = @ + 1 ]
                /\ accept_count' = accept_count + 1
           /\ branch' = "reject" =>
                /\ scores' = scores
                /\ accept_count' = accept_count
       ]_vars

\* a draw was rejected after an earlier one had been accepted
C7_Witness ==
  /\ Rejecting
  /\ it = 2
  /\ branch = "reject"
  /\ accept_count = 1
  /\ Total(scores) = 1

\* C8: in reject_finite the threshold lies in [0, max weight], the draw
\* (k, threshold) is accepted if and only if threshold <= probabilities[k],
\* ties included, so a draw of an activity whose weight is the maximum weight
\* is accepted whatever the threshold.
C8_AcceptIffThresholdLeqWeight ==
  Rejecting /\ it > 0 =>
    /\ \A j \in DOMAIN probabilities : probabilities[j] <= max_prob
    /\ \E j \in DOMAIN probabilities : probabilities[j] = max_prob
    /\ 0 <= gamma.num /\ gamma.num <= max_prob * gamma.den
    /\ branch \in { "accept", "reject" }
    /\ branch = "accept" <=> gamma.num <= At(probabilities, k) * gamma.den
    /\ At(probabilities, k) = max_prob => branch = "accept"

\* a threshold equal to the weight of a lighter activity was accepted
C8_Witness ==
  /\ Rejecting
  /\ it > 0
  /\ branch = "accept"
  /\ At(probabilities, k) < max_prob
  /\ gamma.num = At(probabilities, k) * gamma.den

\* a walker stands at the head of its loop before the first pass
AtFirstPosition == Walking /\ pc = "loop" /\ it = 0

\* weight of a label in the walker's weight table
WeightOf(l) ==
  IF fn = "lattice" THEN sta_prob[l]
  ELSE At(probabilities, CHOOSE j \in 0..(Len(activities) - 1) : At(activities, j) = l)

\* C10 as stated: the walk begins at the label the caller chose as the start,
\* with that label's weight as the cached current weight.
C10_StartsAtCallerSeed ==
  AtFirstPosition =>
    /\ current_pos = seed
    /\ current_pos_prob = WeightOf(seed)

\* C10 amended: the first position is fixed by the function and not by the
\* caller's choice of a start: the lattice walker begins at label 'A' and the
\* generic walker at activities[0], with that label's weight as the cached
\* current weight.
C10_StartsAtFixedLabel ==
  AtFirstPosition =>
    /\ fn = "lattice" => current_pos = "A" /\ current_pos_prob = sta_prob["A"]
    /\ fn = "generic" =>
         current_pos = activities[1] /\ current_pos_prob = probabilities[1]
    /\ current_pos_prob = WeightOf(current_pos)

\* the caller wanted the walk to start at the last label of the 4x4 grid and
\* the walk stands at 'A' before its first pass
C10_Witness ==
  /\ AtFirstPosition
  /\ fn = "lattice"
  /\ n = 4
  /\ seed = "P"
  /\ current_pos = "A"
  /\ current_pos_prob = sta_prob["A"]

\* a sampler that keeps a score table is running
Scoring == fn \in { "lattice", "generic", "reject", "tower" }

\* the step is one pass of the loop of a sampler that keeps a score table
ScorePass == Scoring /\ pc = "loop" /\ it' = it + 1

\* the step adds 1 to exactly one score and changes no other
OneScoreStep == \E l \in DOMAIN scores : scores' = Hit(scores, l)

\* every score is a non-negative integer
ScoresAreCounts == \A l \in DOMAIN scores : scores[l] \in Nat

\* C11 as stated: in each of the four discrete samplers every pass of the
\* loop adds 1 to exactly one score and changes no other, and every score
\* stays a non-negative integer.
C11_ExactlyOnePerPass ==
  /\ [][ ScorePass => OneScoreStep ]_vars
  /\ [](Scoring => ScoresAreCounts)

\* C11 amended: every pass adds 1 to at most one score and changes no other,
\* and every score stays a non-negative integer: a pass of a Metropolis
\* walker that reaches its tally and a pass of tower_sample add 1 to exactly
\* one score, a rejected draw of reject_finite and a lattice pass whose tally
\* raises KeyError leave every score as it was; outside the passes of the
\* loop the scores of a running sampler do not change.
C11_AtMostOnePerPass ==
  /\ [][ ScorePass =>
           IF \/ fn \in { "generic", "tower" }
              \/ fn = "lattice" /\ pc' = "loop"
              \/ fn = "reject" /\ branch' = "accept"
             THEN OneScoreStep
             ELSE scores' = scores
       ]_vars
  /\ [][ Scoring /\ pc = "loop" /\ ~ScorePass => scores' = scores ]_vars
  /\ [](Scoring => ScoresAreCounts)

\* reject_finite returned after two passes of which one was a rejected draw
\* that left the scores alone: a single score is 1 and the others are 0
C11_Witness ==
  /\ fn = "reject"
  /\ pc = "done"
  /\ num_iter = 2
  /\ it = 2
  /\ branch = "reject"
  /\ \E l \in DOMAIN scores :
       scores[l] = 1 /\ \A l2 \in DOMAIN scores \ { l } : scores[l2] = 0

\* the run of the function has ended, by a return or by an exception
Ended == pc \in { "done", "KeyError" }

\* C12 as stated: every sampler ends by returning after exactly num_iter
\* passes of its loop, with all-zero scores or no sample when num_iter is 0,
\* and cont_tower_sample returns exactly num_iter samples.
C12_EndsAfterNumIter ==
  Ended =>
    /\ pc = "done"
    /\ it = num_iter
    /\ fn = "cont" => Len(results) = num_iter
    /\ num_iter = 0 =>
         IF fn = "cont" THEN results = << >>
         ELSE \A l \in DOMAIN scores : scores[l] = 0

\* binary search over the cumulative sequence for the leftmost index of
\* lo..hi whose entry is at or above the draw, the entries being ascending
RECURSIVE Bisect(_, _, _, _)
Bisect(cum, draw, lo, hi) ==
  IF lo >= hi THEN lo
  ELSE LET mid == (lo + hi) \div 2
       IN IF draw.num <= At(cum, mid) * draw.den
            THEN Bisect(cum, draw, lo, mid)
            ELSE Bisect(cum, draw, mid + 1, hi)

\* the bucket a binary search of the tower gives the draw
BisectBucket(draw) ==
  At(activities, Bisect(cum_prob, draw, 1, Len(probabilities)) - 1)

\* C13: with strictly positive weights and a draw of [0, C[last]], each pass
\* of tower_sample adds 1 to the score of the bucket that a binary search for
\* the leftmost index i >= 1 with draw <= C[i] chooses, and to no other
\* score: pass by pass the linear scan and the binary search build the same
\* score table from the same draws.
C13_ScanIsBinarySearch ==
  /\ [](Sampling =>
          /\ \A j \in DOMAIN probabilities : probabilities[j] > 0
          /\ \A j \in 1..Len(probabilities) : At(cum_prob, j - 1) < At(cum_prob, j))
  /\ [][ TowerPass =>
           /\ 0 <= gamma'.num
           /\ gamma'.num <= Last(cum_prob) * gamma'.den
           /\ Scan(cum_prob, gamma', 1) = Bisect(cum_prob, gamma', 1, Len(probabilities))
           /\ scores' = Hit(scores, BisectBucket(gamma'))
       ]_vars

\* a draw strictly inside the middle bucket of a three-bucket tower, which
\* the binary search finds after looking left, was counted for activity 1
C13_Witness ==
  /\ Sampling
  /\ Len(probabilities) = 3
  /\ it >= 1
  /\ gamma.num > At(cum_prob, 1) * gamma.den
  /\ gamma.num < At(cum_prob, 2) * gamma.den
  /\ Bisect(cum_prob, gamma, 1, 3) = 2
  /\ BisectBucket(gamma) = At(activities, 1)
  /\ scores[At(activities, 1)] >= 1

\* a walker stands at the head of its loop, before a pass or before returning
AtLoopHead == Walking /\ pc = "loop"

\* C15: whenever a Metropolis walker (lattice or generic) is at the start of
\* an iteration, the cached current weight is the weight-table entry of the
\* current position: sta_prob[current_pos] in the lattice walker,
\* probabilities[k] in the generic one, k being 0 before any acceptance and
\* the index of the candidate of the last accepted pass afterwards.
C15_CachedWeightIsTableEntry ==
  /\ [](AtLoopHead => current_pos_prob = WeightOf(current_pos))
  /\ [](AtFirstPosition /\ fn = "generic" =>
          current_pos = At(activities, 0) /\ current_pos_prob = At(probabilities, 0))
  /\ [][ WalkPass /\ fn = "generic" =>
           IF branch' = "accept"
             THEN /\ current_pos' = At(activities, new_idx')
                  /\ current_pos_prob' = At(probabilities, new_idx')
             ELSE /\ current_pos' = current_pos
                  /\ current_pos_prob' = current_pos_prob
       ]_vars

\* a generic walker is about to start a pass from a position other than the
\* first activity, whose weight differs from the first activity's
C15_Witness ==
  /\ AtLoopHead
  /\ fn = "generic"
  /\ it >= 1
  /\ it < num_iter
  /\ current_pos # At(activities, 0)
  /\ current_pos_prob # At(probabilities, 0)
  /\ current_pos_prob = WeightOf(current_pos)

\* every weight of the walker's table is strictly positive
AllWeightsPositive ==
  IF fn = "lattice" THEN \A l \in DOMAIN sta_prob : sta_prob[l] > 0
  ELSE \A j \in DOMAIN probabilities : probabilities[j] > 0

\* the walker has its cached weight: it is in its loop or has left it
WeightCached == Walking /\ pc \in { "loop", "done", "KeyError" }

\* C16: when every weight of the table is strictly positive, the cached
\* current weight of a Metropolis walker (lattice or generic) is strictly
\* positive in every reachable state, so the divisor of new_pos_prob /
\* current_pos_prob is never zero in any pass and gamma is a defined ratio.
C16_DivisorPositive ==
  /\ [](WeightCached /\ AllWeightsPositive => current_pos_prob > 0)
  /\ [][ WalkPass /\ AllWeightsPositive =>
           /\ current_pos_prob > 0
           /\ gamma'.den > 0
           /\ gamma'.num > 0
       ]_vars

\* a lattice walker divided a lighter candidate's weight by its heavier
\* current weight and then moved onto the lighter cell
C16_Witness ==
  /\ WeightCached
  /\ fn = "lattice"
  /\ AllWeightsPositive
  /\ it >= 2
  /\ gamma.den > 1
  /\ gamma.num < gamma.den
  /\ branch = "accept"
  /\ current_pos_prob = gamma.num

\* row and column of the grid cell that holds a label
RowOf(l) == CHOOSE r \in 0..(n - 1) : \E c \in 0..(n - 1) : system[r][c] = l

ColOf(l) == CHOOSE c \in 0..(n - 1) : \E r \in 0..(n - 1) : system[r][c] = l

Dist(a, b) == IF a >= b THEN a - b ELSE b - a

\* the step is one pass of the lattice walker's loop
LatticePass == fn = "lattice" /\ pc = "loop" /\ it' = it + 1

\* C17: in every pass of the lattice walker on the table built by
\* get_neighborhood_table the candidate is the entry of the drawn direction
\* in the previous position's table row, and the new position is the
\* previous position or one of its four table entries: its row or its column
\* differs by at most 1 from the previous one, never both, so the walker
\* neither jumps across the grid nor wraps around an edge.
C17_AtMostOneGridStep ==
  [][ LatticePass =>
        /\ new_direct' \in 0..3
        /\ new_pos' = At(neighborhood_table[current_pos], new_direct')
        /\ current_pos' \in { current_pos } \cup Range(neighborhood_table[current_pos])
        /\ current_pos' \in GridLabels(n)
        /\ Dist(RowOf(current_pos'), RowOf(current_pos))
             + Dist(ColOf(current_pos'), ColOf(current_pos)) <= 1
    ]_vars

\* the walker of the 4x4 grid stands on the right edge at D after moving
\* along the top row, and its last pass drew the direction right, which the
\* table sends back to D itself
C17_Witness ==
  /\ fn = "lattice"
  /\ pc = "loop"
  /\ n = 4
  /\ it = 4
  /\ current_pos = "D"
  /\ new_direct = 1
  /\ new_pos = "D"
  /\ scores["D"] = 2

\* number of directions d of 0..3 with table[a][d] = b
DirCount(a, b) == Cardinality({ d \in 0..3 : At(neighborhood_table[a], d) = b })

\* 4 * w(a) * P(a -> b) as a ratio: w(a) * DirCount(a, b) * min(1, w(b)/w(a))
Flow(a, b) ==
  LET g == Gamma(sta_prob[b], sta_prob[a])
  IN Rat(sta_prob[a] * DirCount(a, b) * g.num, g.den)

RatEq(x, y) == x.num * y.den = y.num * x.den

\* the walker is about to be called on the table that was just built
TableReady == fn = "lattice" /\ pc = "call"

\* C18: on the table built by get_neighborhood_table, with strictly positive
\* weights, the one-step kernel P(a -> b) = (number of directions d with
\* table[a][d] = b)/4 * min(1, w(b)/w(a)) of the lattice walker satisfies
\* detailed balance: w(a) * P(a -> b) = w(b) * P(b -> a) for any two distinct
\* labels a and b of the grid; the walk changes neither the table nor the
\* weights, so the kernel it is called with is its kernel in every pass.
C18_DetailedBalance ==
  /\ [](TableReady =>
          /\ \A l \in GridLabels(n) : sta_prob[l] > 0
          /\ \A a, b \in GridLabels(n) :
               a # b =>
                 /\ Flow(a, b).den > 0
                 /\ RatEq(Flow(a, b), Flow(b, a)))
  /\ [][ TableBuilt =>
           /\ neighborhood_table' = neighborhood_table
           /\ sta_prob' = sta_prob
           /\ n' = n
       ]_vars

\* on the notebook's 4x4 table the heavier cell E (weight 2) and the lighter
\* cell F (weight 1) are one step apart and exchange the same non-zero flow,
\* the move E -> F being damped by min(1, 1/2); the walker has just made
\* that move
C18_Witness ==
  /\ TableBuilt
  /\ n = 4
  /\ sta_prob = NotebookStaProb
  /\ pc = "loop"
  /\ it = 2
  /\ current_pos = "F"
  /\ new_direct = 1
  /\ branch = "accept"
  /\ gamma = Rat(1, 2)
  /\ DirCount("E", "F") = 1
  /\ DirCount("F", "E") = 1
  /\ RatEq(Flow("E", "F"), One)
  /\ RatEq(Flow("F", "E"), One)

\* the opposite direction: up 0 <-> down 2, right 1 <-> left 3
Opposite(d) == (d + 2) % 4

\* C19: the table built by get_neighborhood_table is symmetric: for any two
\* distinct labels a and b of the grid and any direction d, b is a's entry
\* in direction d if and only if a is b's entry in the opposite direction
\* (up <-> down, right <-> left), so a and b have the same number of
\* directions leading to each other; the walk leaves the table as built.
C19_TableSymmetric ==
  /\ [](TableReady =>
          \A a, b \in GridLabels(n) :
            a # b =>
              /\ \A d \in 0..3 :
                   At(neighborhood_table[a], d) = b
                     <=> At(neighborhood_table[b], Opposite(d)) = a
              /\ DirCount(a, b) = DirCount(b, a)
              /\ DirCount(a, b) <= 1)
  /\ [][ TableBuilt => neighborhood_table' = neighborhood_table ]_vars

\* on the 5x5 grid the centre cell M has four distinct neighbours, each of
\* which has M in the opposite direction
C19_Witness ==
  /\ TableReady
  /\ n = 5
  /\ neighborhood_table["M"] = << "H", "N", "R", "L" >>
  /\ At(neighborhood_table["H"], 2) = "M"
  /\ At(neighborhood_table["N"], 3) = "M"
  /\ At(neighborhood_table["R"], 0) = "M"
  /\ At(neighborhood_table["L"], 1) = "M"

\* the labels one accepted move away from a label of S: a table entry whose
\* acceptance ratio min(1, w(new)/w(current)) is not zero
StepFrom(S) ==
  { At(neighborhood_table[a], d) : a \in S, d \in 0..3 }
    \cap { b \in GridLabels(n) :
             \E a \in S : \E d \in 0..3 :
               /\ At(neighborhood_table[a], d) = b
               /\ Gamma(sta_prob[b], sta_prob[a]).num > 0 }

\* the labels reachable from those of S by accepted moves
RECURSIVE ReachableFrom(_)
ReachableFrom(S) ==
  LET T == S \cup StepFrom(S)
  IN IF T = S THEN S ELSE ReachableFrom(T)

\* every label of the grid can be reached from the start by accepted moves
AllReachable == ReachableFrom({ LatticeStart }) = GridLabels(n)

\* the lattice walker has made a pass and stands on a cell
Stepped == fn = "lattice" /\ pc \in { "loop", "done", "KeyError" } /\ it >= 1

\* C20 as stated: with strictly positive weights every label of the grid is
\* reachable from the fixed start 'A' by accepted moves, and no cell is
\* excluded from being tallied: the score table has an entry for every label
\* of the grid and the cell the walker stands on after a pass has been
\* counted.
C20_NoCellExcluded ==
  /\ TableReady => AllReachable
  /\ Stepped =>
       /\ GridLabels(n) \subseteq DOMAIN scores
       /\ current_pos \in DOMAIN scores
       /\ scores[current_pos] >= 1

\* the lattice walker has built its score table
LatticeRunning == fn = "lattice" /\ pc \in { "loop", "done", "KeyError" }

\* C21 as stated: for every grid size n of 1..5 with a strictly positive
\* weight for each grid label, the lattice metropolis_pebble run on that
\* grid's table never fails a label lookup, completes all num_iter passes,
\* and returns a score table whose keys are exactly the labels of the grid.
C21_CompletesOnEverySupportedGrid ==
  LatticeRunning =>
    /\ n \in 1..MaxN
    /\ \A l \in GridLabels(n) : sta_prob[l] > 0
    /\ pc # "KeyError"
    /\ it <= num_iter
    /\ pc = "done" =>
         /\ it = num_iter
         /\ DOMAIN scores = GridLabels(n)
         /\ Total(scores) = num_iter

====
